---- MODULE Spec2Model ----
(***************************************************************************)
(* A model of app/main.py of ProTracker: the synchronous FACEIT client     *)
(* (http_get and the four fetch functions built on it) and the endpoints   *)
(* players, match_stats and matches_with_stats (Spec, and SpecTwice for    *)
(* two equal calls), and the profile cache with the team enrichment built  *)
(* on it, fetch_player_profile and _enrich_team_players (SpecProfile).     *)
(*                                                                         *)
(* One behaviour is one call of an endpoint (or of a fetch function).  The *)
(* upstream API is the environment: every HTTP attempt is answered by a    *)
(* network exception or by a response whose status and body are chosen     *)
(* nondeterministically.  A raised exception is never caught by this code, *)
(* so it ends the whole call.                                              *)
(*                                                                         *)
(* Python values: a dict is a record, a list a sequence.  None is the      *)
(* record PyNone where a dict is expected and the string "None" where a    *)
(* string is expected.  A float is an integer number of hundredths.        *)
(***************************************************************************)
EXTENDS Integers, Sequences, FiniteSets, TLC

(***************************************************************************)
(* Bounds of the model.                                                    *)
(***************************************************************************)
\* The longest history upstream returns (the endpoint caps limit at 20).
MaxHistory == 3

(***************************************************************************)
(* Python values.                                                          *)
(***************************************************************************)
PyNone == [none |-> TRUE]
NoneStr == "None"

\* requests.get(...) inside http_get is answered by one of these statuses.
Statuses == {200, 400, 401, 403, 404, 429, 500, 501, 502, 503, 504}

(***************************************************************************)
(* Raw statistics values as upstream sends them: strings.  A raw string is *)
(* described by its syntax: "int" ("22"), "dec" ("22.5"), "pct" ("57%"),   *)
(* "junk" ("abc") or "empty" (""); num is its numeric value in hundredths. *)
(***************************************************************************)
Raw(kind, num) == [kind |-> kind, num |-> num]

\* The Python number 0 (or 0.0) the code uses as the default of a field.
PyZero == Raw("zero", 0)

\* dict.get(name, default) on a dict modelled as a function on its keys.
Get(d, name, default) == IF name \in DOMAIN d THEN d[name] ELSE default

\* Python truthiness of a raw value: the number 0 and "" are falsy, every
\* other string (also "0") is truthy.
RawTruthy(v) == v.kind \notin {"zero", "empty"}

\* x or 0
OrZero(v) == IF RawTruthy(v) THEN v ELSE PyZero

\* int(x): int("22.5"), int("57%") and int("abc") raise ValueError.
PyInt(v) ==
    IF v.kind \in {"zero", "int"} THEN [ok |-> TRUE, val |-> v.num \div 100]
    ELSE [ok |-> FALSE, val |-> 0]

\* float(x), in hundredths: float("57%") and float("abc") raise ValueError.
PyFloat(v) ==
    IF v.kind \in {"zero", "int", "dec"} THEN [ok |-> TRUE, val |-> v.num]
    ELSE [ok |-> FALSE, val |-> 0]

\* round(n / d) to the nearest integer, ties to the even one (n >= 0, d > 0).
RoundDiv(n, d) ==
    LET q == n \div d
        r == n % d
    IN  IF 2 * r < d THEN q
        ELSE IF 2 * r > d THEN q + 1
        ELSE IF q % 2 = 0 THEN q ELSE q + 1

\* round(x, 1) of a value in hundredths, again in hundredths.
Round1(h) == RoundDiv(h, 10) * 10

(***************************************************************************)
(* Upstream payloads.                                                      *)
(***************************************************************************)
\* One roster entry of a team of a round of /matches/{id}/stats.
StatsPlayer(pid, nick, ps) ==
    [player_id |-> pid, nickname |-> nick, player_stats |-> ps]

\* Kills "22", Deaths "14", Assists "3", ADR "78.5", K/R Ratio "0.81".
GoodStats ==
    ("Kills" :> Raw("int", 2200)) @@ ("Deaths" :> Raw("int", 1400)) @@
    ("Assists" :> Raw("int", 300)) @@ ("ADR" :> Raw("dec", 7850)) @@
    ("K/R Ratio" :> Raw("dec", 81))

\* "Kills": "22.5": a decimal string in an integer field.
DecimalKills ==
    ("Kills" :> Raw("dec", 2250)) @@ ("Deaths" :> Raw("int", 1400))

NoStats == ("Avatar" :> "a.png")

StatsTeam(tid, players) == [team_id |-> tid, players |-> players]

StatsRound(map, score, teams) ==
    [round_stats |-> ("Map" :> map) @@ ("Score" :> score), teams |-> teams]

\* A /stats body: the keys of the dict and the value of "rounds".
StatsJson(keys, rounds) == [keys |-> keys, rounds |-> rounds]

\* P1 plays in the first round.
StatsP1First ==
    StatsJson({"rounds"},
      << StatsRound("de_dust2", "13 / 9",
           << StatsTeam("TA", << StatsPlayer("P1", "alice", GoodStats) >>),
              StatsTeam("TB", << StatsPlayer("P3", "carol", NoStats) >>) >>) >>)

\* P1 plays only in the second round; P2 plays in the first.
StatsP1Later ==
    StatsJson({"rounds"},
      << StatsRound("de_nuke", "16 / 14",
           << StatsTeam("TA", << StatsPlayer("P2", "bob", NoStats) >>),
              StatsTeam("TB", << StatsPlayer("P3", "carol", NoStats) >>) >>),
         StatsRound("de_nuke", "16 / 14",
           << StatsTeam("TA", << StatsPlayer("P1", "alice", GoodStats) >>),
              StatsTeam("TB", << StatsPlayer("P3", "carol", NoStats) >>) >>) >>)

\* P1 plays in the first round and its Kills is a decimal string.
StatsP1Decimal ==
    StatsJson({"rounds"},
      << StatsRound("de_inferno", "13 / 2",
           << StatsTeam("TA", << StatsPlayer("P1", "alice", DecimalKills) >>),
              StatsTeam("TB", << >>) >>) >>)

\* {"rounds": []}: a non-empty dict without rounds.
StatsNoRounds == StatsJson({"rounds"}, << >>)

\* {}: an empty dict.
StatsEmptyDict == StatsJson({}, << >>)

StatsPayloads ==
    {StatsP1First, StatsP1Later, StatsP1Decimal, StatsNoRounds, StatsEmptyDict}

\* A /matches/{id} body: its keys, the voted maps and the two factions.
MatchJson(keys, maps, f1, f2) ==
    [keys |-> keys, maps |-> maps, faction1 |-> f1, faction2 |-> f2]

Faction(tid, roster) == [team_id |-> tid, nickname |-> tid, roster |-> roster]

RosterPlayer(pid, nick, level) ==
    [player_id |-> pid, nickname |-> nick, skill_level |-> level]

\* The body also has a "results" object (winner and score).
MatchFull ==
    MatchJson({"voting", "faction1", "faction2", "results"}, << "de_mirage" >>,
              Faction("TA", << RosterPlayer("P1", "alice", "7") >>),
              Faction("TB", << RosterPlayer("P3", "carol", "5") >>))

MatchEmptyDict == MatchJson({}, << >>, PyNone, PyNone)

BasicPayloads == {MatchFull, MatchEmptyDict}

\* Python truthiness of a payload (a dict, or None).
Truthy(d) == d # PyNone /\ d.keys # {}

\* The bodies upstream sends with a 200, per endpoint.
PlayerBodies == {[player_id |-> "P1", nickname |-> "alice"]}

Item(mid) == [match_id |-> mid]

\* The histories upstream returns: m1, m2, ... in this order or reversed.
Histories ==
    UNION {{[i \in 1 .. n |-> Item(i)], [i \in 1 .. n |-> Item(n + 1 - i)]} :
           n \in 0 .. MaxHistory}

HistoryBodies == {[items |-> h] : h \in Histories}

(***************************************************************************)
(* Results of a function: a returned value or a raised exception.          *)
(***************************************************************************)
NoExc == [type |-> "none", status_code |-> 0, detail |-> ""]

HTTPException(status_code, detail) ==
    [type |-> "HTTPException", status_code |-> status_code, detail |-> detail]

\* requests.RequestException and ValueError carry no status.
PyException(type) == [type |-> type, status_code |-> 0, detail |-> ""]

Return(v) == [raised |-> FALSE, exc |-> NoExc, val |-> v]
Raise(e) == [raised |-> TRUE, exc |-> e, val |-> PyNone]

(***************************************************************************)
(* Extraction from payloads.  Of a summarised player the model keeps       *)
(* player_id, nickname, avatar and skill_level; the other fields are       *)
(* copied from the payload in the same way.  Of a history item and of a    *)
(* record it keeps match_id and leaves out game, started_at, finished_at.  *)
(***************************************************************************)
_extract_summary_from_stats(stats_json) ==
    IF stats_json.rounds = << >> THEN << "-", "-", << >> >>
    ELSE
      LET r0 == stats_json.rounds[1]
          summary(p) ==
              [player_id |-> p.player_id, nickname |-> p.nickname,
               avatar |-> Get(p.player_stats, "Avatar", ""),
               skill_level |-> NoneStr]
          \* no team has team_stats here, so its nickname is its team_id
          team(t) ==
              [team_id |-> t.team_id, nickname |-> t.team_id,
               players |-> [i \in 1 .. Len(t.players) |-> summary(t.players[i])]]
      IN  << Get(r0.round_stats, "Map", "-"),
             Get(r0.round_stats, "Score", "-"),
             [i \in 1 .. Len(r0.teams) |-> team(r0.teams[i])] >>

RECURSIVE Flatten(_)
\* The roster entries of the teams, in the order the two loops visit them.
Flatten(teams) ==
    IF teams = << >> THEN << >>
    ELSE teams[1].players \o Flatten(Tail(teams))

\* The personal statistics of roster entry p (lines 263-288).
PlayerStatsOf(p) ==
    LET ps == p.player_stats
        f(name, default) == Get(ps, name, default)
        kills == PyInt(OrZero(f("Kills", f("K", PyZero))))
        deaths == PyInt(OrZero(f("Deaths", PyZero)))
        assists == PyInt(OrZero(f("Assists", PyZero)))
        adr == PyFloat(OrZero(f("ADR", PyZero)))
        hs == PyFloat(OrZero(f("Headshots %", f("HS %", PyZero))))
        kr == PyFloat(OrZero(f("K/R Ratio", PyZero)))
    IN  IF ~(kills.ok /\ deaths.ok /\ assists.ok /\ adr.ok /\ hs.ok /\ kr.ok)
        THEN Raise(PyException("ValueError"))
        ELSE Return(
          [nickname |-> p.nickname,
           kills |-> kills.val,
           deaths |-> deaths.val,
           assists |-> assists.val,
           adr |-> Round1(adr.val),
           hs |-> Round1(hs.val),
           kd |-> IF deaths.val # 0 THEN RoundDiv(kills.val * 100, deaths.val)
                  ELSE kills.val * 100,
           \* round(kr, 2): a value in hundredths is its own rounding
           kr |-> kr.val,
           raw |-> ps])

\* A search that does not stop at the first round.
SearchedRoundsAll(rounds) == rounds

\* The rounds the search looks at: r0 = rounds[0] only.
SearchedRounds(rounds) == << rounds[1] >>

RECURSIVE FlattenRounds(_)
FlattenRounds(rounds) ==
    IF rounds = << >> THEN << >>
    ELSE Flatten(rounds[1].teams) \o FlattenRounds(Tail(rounds))

_find_player_stats_in_round(stats_json, player_id) ==
    IF stats_json.rounds = << >> THEN Return(PyNone)
    ELSE
      LET entries == FlattenRounds(SearchedRounds(stats_json.rounds))
          hits == {i \in 1 .. Len(entries) : entries[i].player_id = player_id}
      IN  IF hits = {} THEN Return(PyNone)
          ELSE PlayerStatsOf(entries[CHOOSE i \in hits : \A j \in hits : i <= j])

\* A score read from the "results" object of the payload.
ScoreFromResults(payload) ==
    IF "results" \in payload.keys THEN "1 / 0" ELSE "-"

\* score = "-": the payload is not looked at.
FallbackScore(payload) == "-"

_extract_summary_from_match(match_json) ==
    LET payload == IF Truthy(match_json) THEN match_json ELSE MatchEmptyDict
        map_name ==
            IF "voting" \in payload.keys /\ payload.maps # << >>
            THEN payload.maps[1] ELSE "-"
        summary(p) ==
            [player_id |-> p.player_id, nickname |-> p.nickname,
             avatar |-> "", skill_level |-> p.skill_level]
        team(t) ==
            [team_id |-> t.team_id, nickname |-> t.nickname,
             players |-> [i \in 1 .. Len(t.roster) |-> summary(t.roster[i])]]
        side(key, t) ==
            IF key \in payload.keys /\ t # PyNone THEN << team(t) >> ELSE << >>
    IN  << map_name, FallbackScore(payload),
           side("faction1", payload.faction1) \o side("faction2", payload.faction2) >>

(***************************************************************************)
(* The fetch functions, from the response http_get returned to them.       *)
(***************************************************************************)
find_player_by_nickname(r) ==
    IF r.status = 200
    THEN Return([player_id |-> r.body.player_id,
                 nickname |-> r.body.nickname, found |-> TRUE])
    ELSE IF r.status = 404 THEN Return([found |-> FALSE])
    ELSE Raise(HTTPException(r.status, "resp.text"))

get_history(r) ==
    IF r.status # 200
    THEN IF r.status = 404 THEN Return(<< >>)
         ELSE Raise(HTTPException(r.status, "resp.text"))
    ELSE Return(r.body.items)

\* The statuses get_match_stats answers with (None, "not_ready_or_hidden").
HiddenStatuses == {403, 404}

get_match_stats(r) ==
    IF r.status = 200 THEN Return(<< r.body, NoneStr >>)
    ELSE IF r.status \in HiddenStatuses
    THEN Return(<< PyNone, "not_ready_or_hidden" >>)
    ELSE Raise(HTTPException(r.status, "resp.text"))

get_match_basic(r) ==
    IF r.status = 200 THEN Return(<< r.body, NoneStr >>)
    ELSE IF r.status = 404 THEN Return(<< PyNone, "match_not_found" >>)
    ELSE Raise(HTTPException(r.status, "resp.text"))

FetchFunctions ==
    {"find_player_by_nickname", "get_history", "get_match_stats", "get_match_basic"}

\* What function f returns or raises once http_get has returned r to it.
FetchResult(f, r) ==
    CASE f = "find_player_by_nickname" -> find_player_by_nickname(r)
      [] f = "get_history" -> get_history(r)
      [] f = "get_match_stats" -> get_match_stats(r)
      [] f = "get_match_basic" -> get_match_basic(r)

\* The 200 bodies of the endpoint function f requests.
Bodies(f) ==
    CASE f = "find_player_by_nickname" -> PlayerBodies
      [] f = "get_history" -> HistoryBodies
      [] f = "get_match_stats" -> StatsPayloads
      [] f = "get_match_basic" -> BasicPayloads

(***************************************************************************)
(* The state.                                                              *)
(***************************************************************************)
VARIABLES
    FACEIT_API_KEY, \* the bearer credential, "" when the variable is unset
    op,             \* the endpoint (or, for a direct call, "call") running
    args,           \* its arguments
    fn,             \* the fetch function in progress
    mid,            \* the match_id that function was called with
    pc,             \* "idle", "_check_key", "http_get", "returned", "done"
    attempt,        \* http_get's loop variable
    requests,       \* the requests.get calls of the current http_get call
    last,           \* the answer to the request just issued
    resp,           \* the response http_get returned
    items,          \* matches_with_stats: the history
    idx,            \* matches_with_stats: the position of `it` in items
    results,        \* matches_with_stats: the records appended so far
    reason,         \* the reason get_match_stats returned
    stats_status,   \* the status of the statistics response of each item done
    outcome,        \* how the operation ended
    ret,            \* the value it returned
    key_errors,     \* history: the fetch functions _check_key has stopped
    calls,          \* history: the fetch function calls of the operation
    run,            \* 0, or which of two equal calls of matches_with_stats runs
    tape,           \* the answers of the first of them, in request order
    first,          \* how the first of them ended
    time,           \* time.time()
    _profile_cache, \* player_id -> {"data": ..., "ts": ...}
    enrich,         \* _enrich_team_players: the flag
    team,           \* _enrich_team_players: the players of the team
    team0,          \* history: the players as they were passed in
    tasks,          \* the fetch_player_profile coroutines of the gather
    epc             \* _enrich_team_players: "idle", "gather", "returned"

callVars == << FACEIT_API_KEY, op, args, key_errors >>
httpVars == << attempt, requests, last, resp >>
loopVars == << items, idx, results, reason, stats_status >>
replayVars == << run, tape, first >>
profileVars == << time, _profile_cache, enrich, team, team0, tasks, epc >>
syncVars == << callVars, fn, mid, pc, httpVars, loopVars, outcome, ret, calls,
               replayVars >>
vars == << syncVars, profileVars >>

NoAnswer == [kind |-> "none", status |-> 0, attempt |-> 0]
NoResp == [status |-> 0, body |-> PyNone]
NoArgs == [player_id |-> NoneStr, match_id |-> 0, query |-> ""]
NoOutcome == [kind |-> "none", exc |-> NoExc, fn |-> "none", mid |-> 0]
NoFirst == [outcome |-> NoOutcome, ret |-> PyNone]

Requesters == {"P1", "P2"}

Init ==
    /\ FACEIT_API_KEY \in {"", "secret"}
    /\ op = "none"
    /\ args = NoArgs
    /\ fn = "none"
    /\ mid = 0
    /\ pc = "idle"
    /\ attempt = 0
    /\ requests = 0
    /\ last = NoAnswer
    /\ resp = NoResp
    /\ items = << >>
    /\ idx = 0
    /\ results = << >>
    /\ reason = NoneStr
    /\ stats_status = << >>
    /\ outcome = NoOutcome
    /\ ret = PyNone
    /\ key_errors = {}
    /\ calls = << >>
    /\ run = 0
    /\ tape = << >>
    /\ first = NoFirst
    /\ time = 0
    /\ _profile_cache = << >>
    /\ enrich = FALSE
    /\ team = << >>
    /\ team0 = << >>
    /\ tasks = << >>
    /\ epc = "idle"

(***************************************************************************)
(* Control: entering a fetch function, returning, raising.                 *)
(***************************************************************************)
\* The operation calls fetch function f for match m.
Enter(f, m) ==
    /\ fn' = f
    /\ mid' = m
    /\ pc' = "_check_key"
    /\ attempt' = 0
    /\ requests' = 0
    /\ resp' = NoResp
    /\ calls' = Append(calls, [fn |-> f, mid |-> m])
    /\ UNCHANGED << outcome, ret >>

\* The operation returns v (requests counts per http_get call and is cleared).
Finish(v) ==
    /\ pc' = "done"
    /\ outcome' = [kind |-> "returned", exc |-> NoExc, fn |-> "none", mid |-> 0]
    /\ ret' = v
    /\ requests' = 0
    /\ UNCHANGED << fn, mid, attempt, resp, calls >>

\* Exception e is raised inside `where`; nothing catches it.
Abort(e, where) ==
    /\ pc' = "done"
    /\ outcome' = [kind |-> "raised", exc |-> e, fn |-> where, mid |-> mid]
    /\ UNCHANGED << fn, mid, attempt, requests, resp, ret, calls >>

(***************************************************************************)
(* The calls.                                                              *)
(***************************************************************************)
\* GET /players?query=...
Call_players ==
    /\ pc = "idle"
    /\ op' = "players"
    /\ \E q \in {"alice", "nobody"} : args' = [NoArgs EXCEPT !.query = q]
    /\ Enter("find_player_by_nickname", 0)
    /\ last' = NoAnswer
    /\ UNCHANGED << FACEIT_API_KEY, key_errors, loopVars, replayVars >>
    /\ UNCHANGED profileVars

\* GET /match_stats?match_id=...&player_id=... (player_id is optional)
Call_match_stats ==
    /\ pc = "idle"
    /\ op' = "match_stats"
    /\ \E p \in Requesters \cup {NoneStr} :
          /\ args' = [NoArgs EXCEPT !.match_id = 1, !.player_id = p]
          /\ Enter("get_match_stats", 1)
    /\ last' = NoAnswer
    /\ UNCHANGED << FACEIT_API_KEY, key_errors, loopVars, replayVars >>
    /\ UNCHANGED profileVars

\* matches_with_stats is entered: items = get_history(player_id, ...)
Enter_matches_with_stats ==
    /\ pc = "idle"
    /\ op' = "matches_with_stats"
    /\ \E p \in Requesters : args' = [NoArgs EXCEPT !.player_id = p]
    /\ Enter("get_history", 0)
    /\ last' = NoAnswer
    /\ UNCHANGED << FACEIT_API_KEY, key_errors, loopVars >>

\* GET /matches/with_stats?player_id=...
Call_matches_with_stats ==
    /\ Enter_matches_with_stats
    /\ UNCHANGED replayVars
    /\ UNCHANGED profileVars

\* One of the fetch functions called on its own.
Call_fetch ==
    /\ pc = "idle"
    /\ op' = "call"
    /\ \E f \in FetchFunctions :
          /\ args' = [NoArgs EXCEPT !.match_id =
                          IF f \in {"get_match_stats", "get_match_basic"}
                          THEN 1 ELSE 0]
          /\ Enter(f, IF f \in {"get_match_stats", "get_match_basic"} THEN 1 ELSE 0)
    /\ last' = NoAnswer
    /\ UNCHANGED << FACEIT_API_KEY, key_errors, loopVars, replayVars >>
    /\ UNCHANGED profileVars

(***************************************************************************)
(* _check_key and http_get.                                                *)
(***************************************************************************)
\* A check that lets an empty credential pass.
_check_key_absent == Return(PyNone)

_check_key ==
    IF FACEIT_API_KEY = ""
    THEN Raise(HTTPException(500,
                 "FACEIT_API_KEY is missing. Please set it on your server."))
    ELSE Return(PyNone)

\* The first statement of every fetch function.
CheckKey ==
    /\ pc = "_check_key"
    /\ IF _check_key.raised
       THEN /\ Abort(_check_key.exc, "_check_key")
            /\ key_errors' = key_errors \cup {fn}
       ELSE /\ pc' = "http_get"
            /\ UNCHANGED << fn, mid, attempt, requests, resp, outcome, ret,
                            key_errors, calls >>
    /\ last' = NoAnswer
    /\ UNCHANGED << FACEIT_API_KEY, op, args, loopVars, replayVars >>
    /\ UNCHANGED profileVars

\* The statuses after which http_get sleeps and tries again.
RetryStatuses == {429, 500, 502, 503, 504}

\* range(3)
Attempts == 3

\* What upstream (or the network) may answer to a request of function f.
Answers(f) ==
    {[kind |-> "exception", status |-> 0, body |-> PyNone]}
    \cup {[kind |-> "response", status |-> s, body |-> PyNone] :
              s \in Statuses \ {200}}
    \cup {[kind |-> "response", status |-> 200, body |-> b] : b \in Bodies(f)}

\* One iteration of http_get's loop: a request and its answer a.
HttpStep(a) ==
    /\ pc = "http_get"
    /\   /\ requests' = requests + 1
         /\ last' = [kind |-> a.kind, status |-> a.status, attempt |-> attempt + 1]
         /\ IF a.kind = "response" /\ a.status \notin RetryStatuses
            THEN \* return resp
                 /\ pc' = "returned"
                 /\ resp' = [status |-> a.status, body |-> a.body]
                 /\ attempt' = 0
                 /\ UNCHANGED << fn, mid, outcome, ret >>
            ELSE IF a.kind = "exception" /\ attempt = 2
            THEN \* raise
                 /\ pc' = "done"
                 /\ outcome' = [kind |-> "raised",
                                exc |-> PyException("RequestException"),
                                fn |-> "http_get", mid |-> mid]
                 /\ UNCHANGED << fn, mid, attempt, resp, ret >>
            ELSE IF attempt + 1 < Attempts
            THEN \* time.sleep(...) and the next iteration
                 /\ attempt' = attempt + 1
                 /\ UNCHANGED << fn, mid, pc, resp, outcome, ret >>
            ELSE \* the loop is exhausted: the raise after it
                 /\ pc' = "done"
                 /\ attempt' = attempt + 1
                 /\ outcome' = [kind |-> "raised",
                                exc |-> HTTPException(502,
                                          "Network error when calling Faceit API"),
                                fn |-> "http_get", mid |-> mid]
                 /\ UNCHANGED << fn, mid, resp, ret >>
    /\ UNCHANGED << callVars, loopVars, calls >>

\* http_get's loop with any answer.
HttpAttempt ==
    /\ pc = "http_get"
    /\ \E a \in Answers(fn) : HttpStep(a)
    /\ UNCHANGED replayVars
    /\ UNCHANGED profileVars

(***************************************************************************)
(* The operations, from the point a fetch function has its response.       *)
(***************************************************************************)
\* A fetch function called on its own returns or raises.
fetch_returns ==
    /\ pc = "returned"
    /\ op = "call"
    /\ LET r == FetchResult(fn, resp)
       IN  IF r.raised THEN Abort(r.exc, fn) ELSE Finish(r.val)
    /\ last' = NoAnswer
    /\ UNCHANGED << callVars, loopVars, replayVars >>
    /\ UNCHANGED profileVars

\* players, after find_player_by_nickname
players ==
    /\ pc = "returned"
    /\ op = "players"
    /\ LET result == find_player_by_nickname(resp)
       IN  IF result.raised THEN Abort(result.exc, fn)
           ELSE IF ~result.val.found
           THEN Abort(HTTPException(404, "Player not found"), "players")
           ELSE Finish(result.val)
    /\ last' = NoAnswer
    /\ UNCHANGED << callVars, loopVars, replayVars >>
    /\ UNCHANGED profileVars

\* match_stats, after get_match_stats
match_stats_stats ==
    /\ pc = "returned"
    /\ op = "match_stats"
    /\ fn = "get_match_stats"
    /\ LET r == get_match_stats(resp)
           stats == r.val[1]
           summary == _extract_summary_from_stats(stats)
           player_data ==
               IF args.player_id # NoneStr
               THEN _find_player_stats_in_round(stats, args.player_id)
               ELSE Return(PyNone)
       IN  IF r.raised
           THEN Abort(r.exc, fn) /\ UNCHANGED reason
           ELSE IF ~Truthy(stats)
           THEN /\ reason' = r.val[2]
                /\ Enter("get_match_basic", args.match_id)
           ELSE IF player_data.raised
           THEN Abort(player_data.exc, "_find_player_stats_in_round")
                /\ UNCHANGED reason
           ELSE /\ Finish([match_id |-> args.match_id,
                           available |-> TRUE,
                           map |-> summary[1],
                           score |-> summary[2],
                           teams |-> summary[3],
                           player |-> player_data.val])
                /\ reason' = r.val[2]
    /\ last' = NoAnswer
    /\ UNCHANGED << callVars, items, idx, results, stats_status, replayVars >>
    /\ UNCHANGED profileVars

\* match_stats, after get_match_basic
match_stats_basic ==
    /\ pc = "returned"
    /\ op = "match_stats"
    /\ fn = "get_match_basic"
    /\ LET r == get_match_basic(resp)
           summary == _extract_summary_from_match(r.val[1])
       IN  IF r.raised THEN Abort(r.exc, fn)
           ELSE Finish([match_id |-> args.match_id,
                        available |-> FALSE,
                        stats_unavailable_reason |-> reason,
                        map |-> summary[1],
                        score |-> summary[2],
                        teams |-> summary[3],
                        player |-> PyNone])
    /\ last' = NoAnswer
    /\ UNCHANGED << callVars, loopVars, replayVars >>
    /\ UNCHANGED profileVars

\* results.append(rec) at the front instead of the end.
EmitFirst(res, rec) == << rec >> \o res

\* results.append(rec)
Emit(res, rec) == Append(res, rec)

\* The for loop of matches_with_stats goes on with the item after idx, or
\* the function returns res.
NextItem(res) ==
    IF idx < Len(items)
    THEN /\ idx' = idx + 1
         /\ Enter("get_match_stats", items[idx + 1].match_id)
    ELSE /\ Finish(res)
         /\ UNCHANGED idx

\* A results list that outlives the call (a list bound once, not per call).
KeptResults(old) == old

\* results = []
NewResults(old) == << >>

\* matches_with_stats, after get_history
matches_with_stats_history ==
    /\ pc = "returned"
    /\ op = "matches_with_stats"
    /\ fn = "get_history"
    /\ LET r == get_history(resp)
       IN  IF r.raised
           THEN Abort(r.exc, fn) /\ UNCHANGED << items, idx, results >>
           ELSE /\ items' = r.val
                /\ results' = NewResults(results)
                /\ IF r.val = << >>
                   THEN Finish(NewResults(results)) /\ UNCHANGED idx
                   ELSE /\ idx' = 1
                        /\ Enter("get_match_stats", r.val[1].match_id)
    /\ last' = NoAnswer
    /\ UNCHANGED << callVars, reason, stats_status, replayVars >>
    /\ UNCHANGED profileVars

\* matches_with_stats, after get_match_stats(mid)
matches_with_stats_stats ==
    /\ pc = "returned"
    /\ op = "matches_with_stats"
    /\ fn = "get_match_stats"
    /\ LET r == get_match_stats(resp)
           stats_json == r.val[1]
           summary == _extract_summary_from_stats(stats_json)
           player_stats == _find_player_stats_in_round(stats_json, args.player_id)
           rec == [match_id |-> mid,
                   map |-> summary[1],
                   score |-> summary[2],
                   teams |-> summary[3],
                   player |-> player_stats.val,
                   stats_unavailable_reason |-> NoneStr]
       IN  IF r.raised
           THEN /\ Abort(r.exc, fn)
                /\ UNCHANGED << idx, results, reason, stats_status >>
           ELSE IF ~Truthy(stats_json)
           THEN /\ reason' = r.val[2]
                /\ stats_status' = Append(stats_status, resp.status)
                /\ Enter("get_match_basic", mid)
                /\ UNCHANGED << idx, results >>
           ELSE IF player_stats.raised
           THEN /\ Abort(player_stats.exc, "_find_player_stats_in_round")
                /\ UNCHANGED << idx, results, reason, stats_status >>
           ELSE /\ results' = Emit(results, rec)
                /\ reason' = r.val[2]
                /\ stats_status' = Append(stats_status, resp.status)
                /\ NextItem(Emit(results, rec))
    /\ last' = NoAnswer
    /\ UNCHANGED << callVars, items, replayVars >>
    /\ UNCHANGED profileVars

\* matches_with_stats, after get_match_basic(mid)
matches_with_stats_basic ==
    /\ pc = "returned"
    /\ op = "matches_with_stats"
    /\ fn = "get_match_basic"
    /\ LET r == get_match_basic(resp)
           summary == _extract_summary_from_match(r.val[1])
           rec == [match_id |-> mid,
                   map |-> summary[1],
                   score |-> summary[2],
                   teams |-> summary[3],
                   player |-> PyNone,
                   stats_unavailable_reason |-> reason]
       IN  IF r.raised
           THEN Abort(r.exc, fn) /\ UNCHANGED << idx, results >>
           ELSE /\ results' = Emit(results, rec)
                /\ NextItem(Emit(results, rec))
    /\ last' = NoAnswer
    /\ UNCHANGED << callVars, items, reason, stats_status, replayVars >>
    /\ UNCHANGED profileVars

\* The call is over; the process serves the next one with the same credential.
NextCall ==
    /\ pc = "done"
    /\ op' = "none"
    /\ args' = NoArgs
    /\ fn' = "none"
    /\ mid' = 0
    /\ pc' = "idle"
    /\ attempt' = 0
    /\ requests' = 0
    /\ last' = NoAnswer
    /\ resp' = NoResp
    /\ items' = << >>
    /\ idx' = 0
    /\ results' = << >>
    /\ reason' = NoneStr
    /\ stats_status' = << >>
    /\ outcome' = NoOutcome
    /\ ret' = PyNone
    /\ calls' = << >>
    /\ UNCHANGED << FACEIT_API_KEY, key_errors, replayVars >>
    /\ UNCHANGED profileVars

Next ==
    \/ Call_players
    \/ Call_match_stats
    \/ Call_matches_with_stats
    \/ Call_fetch
    \/ CheckKey
    \/ HttpAttempt
    \/ fetch_returns
    \/ players
    \/ match_stats_stats
    \/ match_stats_basic
    \/ matches_with_stats_history
    \/ matches_with_stats_stats
    \/ matches_with_stats_basic
    \/ NextCall

Spec == Init /\ [][Next]_vars

(***************************************************************************)
(* Two calls of matches_with_stats with the same player_id, upstream       *)
(* answering the requests of the second as it answered those of the first. *)
(***************************************************************************)
\* The longest history of the two calls.
MaxReplayed == 2

\* The answers of the first call.
ReplayedAnswers(f) ==
    {a \in Answers(f) :
        \/ a.kind = "exception"
        \/ a.status = 404
        \/ /\ a.status = 200
           /\ f = "get_history" => Len(a.body.items) <= MaxReplayed
           /\ f = "get_match_stats" => a.body \in {StatsP1First, StatsP1Decimal}
           /\ f = "get_match_basic" => a.body = MatchFull}

\* The first call.
CallFirst ==
    /\ run = 0
    /\ Enter_matches_with_stats
    /\ run' = 1
    /\ UNCHANGED << tape, first >>
    /\ UNCHANGED profileVars

\* A request of the first call; its answer goes on the tape.
HttpRecord ==
    /\ run = 1
    /\ pc = "http_get"
    /\ \E a \in ReplayedAnswers(fn) :
          /\ HttpStep(a)
          /\ tape' = Append(tape, a)
    /\ UNCHANGED << run, first >>
    /\ UNCHANGED profileVars

\* The second call, in the same process: the locals of the first call are
\* not cleared, the function's own assignments overwrite them.
CallAgain ==
    /\ run = 1
    /\ pc = "done"
    /\ run' = 2
    /\ first' = [outcome |-> outcome, ret |-> ret]
    /\ fn' = "get_history"
    /\ mid' = 0
    /\ pc' = "_check_key"
    /\ attempt' = 0
    /\ requests' = 0
    /\ last' = NoAnswer
    /\ resp' = NoResp
    /\ outcome' = NoOutcome
    /\ ret' = PyNone
    /\ calls' = << [fn |-> "get_history", mid |-> 0] >>
    /\ stats_status' = << >>
    /\ UNCHANGED << callVars, items, idx, results, reason, tape >>
    /\ UNCHANGED profileVars

\* A request of the second call is answered from the tape.
HttpReplay ==
    /\ run = 2
    /\ tape # << >>
    /\ HttpStep(Head(tape))
    /\ tape' = Tail(tape)
    /\ UNCHANGED << run, first >>
    /\ UNCHANGED profileVars

NextTwice ==
    \/ CallFirst
    \/ CheckKey
    \/ HttpRecord
    \/ matches_with_stats_history
    \/ matches_with_stats_stats
    \/ matches_with_stats_basic
    \/ CallAgain
    \/ HttpReplay

SpecTwice == Init /\ [][NextTwice]_vars

(***************************************************************************)
(* The profile cache: fetch_player_profile and _enrich_team_players.       *)
(*                                                                         *)
(* The coroutines run on one event loop: a coroutine runs alone from one   *)
(* await to the next, and the coroutines of a gather are resumed in any    *)
(* order, with the clock advancing in between.  A dict is a function on    *)
(* its keys; every value of a player or of a profile is a string, None     *)
(* being "None".  The clock does not go backwards.  The field now of a     *)
(* coroutine is its local variable while it awaits, and 0 otherwise.       *)
(***************************************************************************)
_PROFILE_TTL == 3600

\* The clock is read at multiples of half the TTL.
ClockStep == _PROFILE_TTL \div 2

\* The clock stops after this many steps.
MaxTicks == 2

\* The most players of a team.
MaxTeam == 2

\* a or b, on strings
StrOr(a, b) == IF a \in {"", NoneStr} THEN b ELSE a

\* d[k] = v
SetItem(d, k, v) == (k :> v) @@ d

\* A setdefault that overwrites.
SetAlways(d, k, v) == (k :> v) @@ d

\* d.setdefault(k, v)
SetDefault(d, k, v) == IF k \in DOMAIN d THEN d ELSE d @@ (k :> v)

\* The players a team is made of: as the match payload gives them, or with
\* some of the profile fields already there.
PlayerDict(pid) == "player_id" :> pid @@ "nickname" :> pid

PlayerDicts ==
    {PlayerDict("P1"),
     "avatar" :> "old.png" @@ "skill_level" :> "3" @@ PlayerDict("P2")}

Teams == UNION {[1 .. n -> PlayerDicts] : n \in 1 .. MaxTeam}

\* The JSON bodies of /players/{id}: a profile with cs2, one with csgo only
\* and neither avatar nor faceit_url, an error object, a list.
RawKinds == {"cs2", "csgo", "error", "list"}

RawBody(kind, pid) ==
    CASE kind = "cs2" ->
            "player_id" :> pid @@ "nickname" :> pid
            @@ "avatar" :> "new.png"
            @@ "games" :> ("cs2" :> ("skill_level" :> "7"
                                     @@ "game_player_id" :> "steam")
                           @@ "csgo" :> ("skill_level" :> "5"
                                         @@ "game_player_id" :> "steam0"))
            @@ "faceit_url" :> "https://www.faceit.com/{lang}/players/x"
      [] kind = "csgo" ->
            "player_id" :> pid @@ "nickname" :> pid
            @@ "games" :> ("csgo" :> ("skill_level" :> "5"
                                      @@ "game_player_id" :> "steam0"))
      [] kind = "error" -> "errors" :> "not found"
      [] OTHER -> << >>

\* s.replace("{lang}", "en")
ReplaceLang(s) ==
    IF s = "https://www.faceit.com/{lang}/players/x"
    THEN "https://www.faceit.com/en/players/x"
    ELSE s

\* data = {...} built from raw
ProfileData(raw) ==
    LET games == Get(raw, "games", << >>)
        cs2 == Get(games, "cs2", << >>)
        csgo == Get(games, "csgo", << >>)
    IN  [player_id |-> Get(raw, "player_id", NoneStr),
         nickname |-> Get(raw, "nickname", NoneStr),
         avatar |-> StrOr(Get(raw, "avatar", NoneStr), ""),
         skill_level |->
             StrOr(Get(cs2, "skill_level", NoneStr),
                   StrOr(Get(csgo, "skill_level", NoneStr), NoneStr)),
         game_player_id |->
             StrOr(Get(cs2, "game_player_id", NoneStr),
                   Get(csgo, "game_player_id", NoneStr)),
         faceit_url |-> ReplaceLang(StrOr(Get(raw, "faceit_url", NoneStr), ""))]

NoData ==
    [player_id |-> NoneStr, nickname |-> NoneStr, avatar |-> NoneStr,
     skill_level |-> NoneStr, game_player_id |-> NoneStr,
     faceit_url |-> NoneStr]

\* What a coroutine of the gather ends with: a dict, None or an exception.
Profile(data) == [kind |-> "dict", data |-> data]
NoProfile == [kind |-> "None", data |-> NoData]
Raised == [kind |-> "exception", data |-> NoData]
Pending == [kind |-> "pending", data |-> NoData]

\* What upstream answers to GET /players/{id}.
\* A failure of session.get or of r.json(), a 200 with one of the bodies,
\* a 404 with an error object.
NoReply == [kind |-> "none", status |-> 0, json |-> "none"]

Replies ==
    {[kind |-> "exception", status |-> 0, json |-> "none"]}
    \cup {[kind |-> "response", status |-> 200, json |-> j] : j \in RawKinds}
    \cup {[kind |-> "response", status |-> 404, json |-> "error"]}

\* A stale entry counts as a hit up to and including the TTL.
CacheFreshInclusive(cache, pid, now) ==
    pid \in DOMAIN cache /\ now - cache[pid].ts <= _PROFILE_TTL

\* hit and now - hit["ts"] < _PROFILE_TTL
CacheFresh(cache, pid, now) ==
    pid \in DOMAIN cache /\ now - cache[pid].ts < _PROFILE_TTL

\* A write that keeps the ts of the entry it replaces.
CacheStoreKeepTs(cache, pid, data, now) ==
    IF pid \in DOMAIN cache
    THEN (pid :> [data |-> data, ts |-> cache[pid].ts]) @@ cache
    ELSE (pid :> [data |-> data, ts |-> now]) @@ cache

\* _profile_cache[player_id] = {"data": data, "ts": now}
CacheStore(cache, pid, data, now) ==
    (pid :> [data |-> data, ts |-> now]) @@ cache

\* Every status taken for a success.
StatusOkAny(status) == TRUE

\* not (r.status != 200)
StatusOk(status) == status = 200

\* The setdefault calls of a player that got no profile.
Defaults(p) ==
    SetDefault(SetDefault(SetDefault(SetDefault(p,
        "avatar", ""), "skill_level", NoneStr), "game_player_id", NoneStr),
        "faceit_url", NoneStr)

\* The assignments of a player whose profile was fetched.
Filled(p, prof) ==
    SetItem(SetItem(SetItem(SetItem(p,
        "avatar", StrOr(prof.avatar, "")),
        "skill_level", prof.skill_level),
        "game_player_id", prof.game_player_id),
        "faceit_url", prof.faceit_url)

\* isinstance(prof, dict) and prof.get("player_id")
GotProfile(res) ==
    res.kind = "dict" /\ res.data.player_id \notin {"", NoneStr}

\* _enrich_team_players is called.  With enrich off it fills the defaults
\* and returns; with enrich on it creates one coroutine per player and
\* awaits the gather.
Call_enrich_team_players ==
    /\ epc = "idle"
    /\ \E t \in Teams, e \in BOOLEAN :
          /\ team0' = t
          /\ enrich' = e
          /\ IF ~e
             THEN /\ team' = [i \in DOMAIN t |-> Defaults(t[i])]
                  /\ tasks' = << >>
                  /\ epc' = "returned"
             ELSE /\ team' = t
                  /\ tasks' = [i \in DOMAIN t |->
                                 [player_id |-> t[i]["player_id"],
                                  pc |-> "start",
                                  now |-> 0,
                                  requests |-> 0,
                                  reply |-> NoReply,
                                  result |-> Pending]]
                  /\ epc' = "gather"
    /\ UNCHANGED << time, _profile_cache, syncVars >>

\* fetch_player_profile up to its await: the clock is read, the cache is
\* looked up, and on a miss the request is sent.
fetch_player_profile_start(i) ==
    /\ epc = "gather"
    /\ tasks[i].pc = "start"
    /\ IF CacheFresh(_profile_cache, tasks[i].player_id, time)
       THEN tasks' = [tasks EXCEPT
                        ![i].pc = "done",
                        ![i].result =
                            Profile(_profile_cache[tasks[i].player_id].data)]
       ELSE tasks' = [tasks EXCEPT
                        ![i].pc = "await",
                        ![i].now = time,
                        ![i].requests = @ + 1]
    /\ UNCHANGED << time, _profile_cache, enrich, team, team0, epc, syncVars >>

\* fetch_player_profile from its await on: the reply r has arrived.
fetch_player_profile_reply(i) ==
    /\ epc = "gather"
    /\ tasks[i].pc = "await"
    /\ \E r \in Replies :
          LET pid == tasks[i].player_id
              data == ProfileData(RawBody(r.json, pid))
              ends(res) == tasks' = [tasks EXCEPT ![i].pc = "done",
                                                 ![i].now = 0,
                                                 ![i].reply = r,
                                                 ![i].result = res]
          IN  IF r.kind = "exception" \/ ~StatusOk(r.status)
              THEN \* return None
                   /\ ends(NoProfile)
                   /\ UNCHANGED _profile_cache
              ELSE IF r.json = "list"
              THEN \* raw.get raises AttributeError outside the try
                   /\ ends(Raised)
                   /\ UNCHANGED _profile_cache
              ELSE /\ ends(Profile(data))
                   /\ _profile_cache' =
                         CacheStore(_profile_cache, pid, data, tasks[i].now)
    /\ UNCHANGED << time, enrich, team, team0, epc, syncVars >>

\* The gather is complete: the loop over zip(players, profs), and return.
enrich_team_players_zip ==
    /\ epc = "gather"
    /\ \A i \in DOMAIN tasks : tasks[i].pc = "done"
    /\ team' = [i \in DOMAIN team |->
                  IF GotProfile(tasks[i].result)
                  THEN Filled(team[i], tasks[i].result.data)
                  ELSE Defaults(team[i])]
    /\ epc' = "returned"
    /\ UNCHANGED << time, _profile_cache, enrich, team0, tasks, syncVars >>

\* The caller goes on to the next team.
NextTeam ==
    /\ epc = "returned"
    /\ epc' = "idle"
    /\ enrich' = FALSE
    /\ team' = << >>
    /\ team0' = << >>
    /\ tasks' = << >>
    /\ UNCHANGED << time, _profile_cache, syncVars >>

\* Time passes.
Tick ==
    /\ time < MaxTicks * ClockStep
    /\ time' = time + ClockStep
    /\ UNCHANGED << _profile_cache, enrich, team, team0, tasks, epc, syncVars >>

NextProfile ==
    \/ Call_enrich_team_players
    \/ \E i \in DOMAIN tasks : fetch_player_profile_start(i)
    \/ \E i \in DOMAIN tasks : fetch_player_profile_reply(i)
    \/ enrich_team_players_zip
    \/ NextTeam
    \/ Tick

\* The process runs with its credential set.
InitProfile == Init /\ FACEIT_API_KEY = "secret"

SpecProfile == InitProfile /\ [][NextProfile]_vars

(***************************************************************************)
(* Properties.                                                             *)
(***************************************************************************)
\* A call of matches_with_stats is over.
BatchDone == op = "matches_with_stats" /\ pc = "done"

\* results holds a record for match m.
Emitted(m) == \E j \in 1 .. Len(results) : results[j].match_id = m

\* C1: when the statistics fetch of a match of the batch ends in an upstream
\* error (get_match_stats raises, or http_get gives up on it), the records
\* of all the other matches of the history are still emitted.
C1_FatalErrorKeepsBatch ==
    (/\ BatchDone
     /\ outcome.kind = "raised"
     /\ fn = "get_match_stats"
     /\ outcome.exc.type = "HTTPException")
    => \A i \in 1 .. Len(items) : i # idx => Emitted(items[i].match_id)

\* C2: when the statistics fetch of a match has used up its retries on
\* network errors, matches_with_stats does not abort: it returns, and its
\* result holds a record for that match with reason "network_error".
C2_NetworkErrorFallsBack ==
    (/\ BatchDone
     /\ fn = "get_match_stats"
     /\ last.kind = "exception")
    => /\ outcome.kind = "returned"
       /\ \E j \in 1 .. Len(results) :
             /\ results[j].match_id = mid
             /\ results[j].stats_unavailable_reason = "network_error"

\* The statistics fetches of a history of several matches were all
\* answered, one of them with 404 and the others with 200.
OneNotFound ==
    /\ Len(items) >= 2
    /\ Len(stats_status) = Len(items)
    /\ Cardinality({i \in 1 .. Len(items) : stats_status[i] = 404}) = 1
    /\ \A i \in 1 .. Len(items) : stats_status[i] \in {200, 404}

\* C3: in a batch where one statistics fetch is answered 404 and the others
\* 200, the result has one entry per match of the history, the 404 match
\* with reason "not_ready_or_hidden" and no player, whatever the basic-match
\* fetch of that match returns (the only failure looked at is that fetch).
C3_PartialFailureKeepsBatch ==
    (/\ BatchDone
     /\ OneNotFound
     /\ outcome.kind = "raised" =>
           (fn = "get_match_basic" /\ stats_status[idx] = 404))
    => /\ outcome.kind = "returned"
       /\ Len(ret) = Len(items)
       /\ \A i \in 1 .. Len(items) :
             /\ ret[i].match_id = items[i].match_id
             /\ stats_status[i] = 404 =>
                   /\ ret[i].stats_unavailable_reason = "not_ready_or_hidden"
                   /\ ret[i].player = PyNone

\* C4: a result list matches_with_stats returns has one record per history
\* item, the i-th carrying the match_id of the i-th item.
C4_OneRecordPerItemInOrder ==
    (BatchDone /\ outcome.kind = "returned")
    => /\ Len(ret) = Len(items)
       /\ \A i \in 1 .. Len(items) : ret[i].match_id = items[i].match_id

\* A returned batch of three matches in reverse id order, one enriched with
\* the player's statistics and one served by the fallback.
C4_Witness ==
    /\ BatchDone
    /\ outcome.kind = "returned"
    /\ Len(items) = 3
    /\ items[1].match_id > items[2].match_id
    /\ \E i, j \in 1 .. Len(ret) :
          /\ ret[i].player # PyNone
          /\ ret[j].stats_unavailable_reason = "not_ready_or_hidden"

\* C5: every record emitted by matches_with_stats, or by match_stats asked
\* for a player, whose player is absent carries a populated
\* stats_unavailable_reason.
C5_AbsentPlayerHasReason ==
    /\ op = "matches_with_stats" =>
          \A i \in 1 .. Len(results) :
             results[i].player = PyNone =>
                results[i].stats_unavailable_reason # NoneStr
    /\ (op = "match_stats" /\ pc = "done" /\ outcome.kind = "returned"
           /\ args.player_id # NoneStr /\ ret.player = PyNone) =>
          /\ "stats_unavailable_reason" \in DOMAIN ret
          /\ ret.stats_unavailable_reason # NoneStr

\* Some roster entry of a team of the first round of payload has this id.
InFirstRound(payload, player_id) ==
    /\ payload.rounds # << >>
    /\ \E t \in 1 .. Len(payload.rounds[1].teams) :
          \E p \in 1 .. Len(payload.rounds[1].teams[t].players) :
             payload.rounds[1].teams[t].players[p].player_id = player_id

\* C6: whenever matches_with_stats appends a record, its player is present
\* if and only if the record comes from a statistics payload in whose first
\* round some roster entry has the requesting player's id.
C6_PlayerIffInFirstRound ==
    [][(op = "matches_with_stats" /\ Len(results') = Len(results) + 1) =>
         ((results'[Len(results')].player # PyNone)
          <=> (/\ fn = "get_match_stats"
               /\ resp.status = 200
               /\ InFirstRound(resp.body, args.player_id)))]_vars

\* P1's batch holds a record with P1's statistics, the record of the match
\* where P1 plays only in the second round, without player, and a record of
\* the fallback.
C6_Witness ==
    /\ op = "matches_with_stats"
    /\ args.player_id = "P1"
    /\ \E i, j, k \in 1 .. Len(results) :
          /\ results[i].player # PyNone
          /\ results[j].map = "de_nuke" /\ results[j].player = PyNone
          /\ results[k].stats_unavailable_reason = "not_ready_or_hidden"
          /\ results[k].player = PyNone

\* C7: a statistics fetch answered 404, 401 or 403 raises no error: the
\* reason becomes "not_ready_or_hidden" and the basic-match fetch follows.
C7_HiddenStatsFallBack ==
    /\ (pc = "done" /\ outcome.kind = "raised" /\ outcome.fn = "get_match_stats")
          => outcome.exc.status_code \notin {401, 403, 404}
    /\ (op \in {"match_stats", "matches_with_stats"} /\ fn = "get_match_basic")
          => reason \in {"not_ready_or_hidden", NoneStr}

\* C8: one call of http_get issues at most 3 requests; 429, any 5xx and a
\* network exception on attempt 1 or 2 are followed by another attempt; any
\* other status ends the call on the attempt that received it.
C8_RetryPolicy ==
    /\ requests <= 3
    /\ pc = "http_get" => attempt < 3
    /\ (last.kind = "response" /\ last.attempt \in {1, 2}
           /\ (last.status = 429 \/ last.status \in 500 .. 599))
          => (pc = "http_get" /\ attempt = last.attempt)
    /\ (last.kind = "exception" /\ last.attempt \in {1, 2})
          => (pc = "http_get" /\ attempt = last.attempt)
    /\ (last.kind = "response" /\ last.status # 429
           /\ last.status \notin 500 .. 599)
          => (pc = "returned" /\ requests = last.attempt)

\* C9: with an empty credential no request is ever issued, and each fetch
\* function ends with the missing-credential error raised by _check_key.
C9_MissingKeyNoRequest ==
    FACEIT_API_KEY = "" =>
       /\ requests = 0
       /\ last = NoAnswer
       /\ pc \in {"idle", "_check_key", "done"}
       /\ pc = "done" =>
             /\ outcome.kind = "raised"
             /\ outcome.fn = "_check_key"
             /\ outcome.exc = HTTPException(500,
                   "FACEIT_API_KEY is missing. Please set it on your server.")

\* All four fetch functions have been stopped by _check_key, the last of
\* them get_match_basic, and no request was issued.
C9_Witness ==
    /\ FACEIT_API_KEY = ""
    /\ key_errors = FetchFunctions
    /\ pc = "done"
    /\ fn = "get_match_basic"
    /\ outcome.fn = "_check_key"
    /\ requests = 0

\* C10: a player query that upstream answers with 404 ends as the result
\* found = false, in find_player_by_nickname and in players.
C10_NotFoundIsAResult ==
    (/\ pc = "done"
     /\ fn = "find_player_by_nickname"
     /\ resp.status = 404)
    => /\ outcome.kind = "returned"
       /\ ret.found = FALSE

\* C11: when the exact nickname lookup is answered 404, found = false is
\* reported only after a request to a search endpoint.
C11_SearchBeforeNotFound ==
    (/\ pc = "done"
     /\ fn = "find_player_by_nickname"
     /\ resp.status = 404)
    => \E i \in 2 .. Len(calls) : calls[i].fn = "search_players"

\* C12: extracting the player's statistics never raises, whatever the raw
\* values are.
C12_ExtractionNeverRaises ==
    ~(/\ pc = "done"
      /\ outcome.kind = "raised"
      /\ outcome.exc.type = "ValueError")

\* C13: every emitted record has a won value, unknown when the player is
\* absent.
C13_EveryRecordHasWon ==
    op = "matches_with_stats" =>
       \A i \in 1 .. Len(results) :
          /\ "won" \in DOMAIN results[i]
          /\ results[i].player = PyNone => results[i].won = "unknown"

\* C15: no call of http_get ends in the raise after its loop.
C15_RaiseAfterLoopUnreached ==
    ~(/\ outcome.kind = "raised"
      /\ outcome.fn = "http_get"
      /\ outcome.exc =
            HTTPException(502, "Network error when calling Faceit API"))

\* The calls of fetch function f for match m logged in log.
CallsOf(log, f, m) ==
    Cardinality({j \in 1 .. Len(log) : log[j] = [fn |-> f, mid |-> m]})

\* C16: in matches_with_stats every new fetch call is the first statistics
\* call of the item that follows the records appended so far, or the first
\* basic-match call of the item whose statistics fetch just returned no
\* usable payload; a returned batch has called the statistics fetch once
\* per item; a record appended after the basic-match fetch has no player
\* and score "-".
C16_FetchesPerItem ==
    [][(op = "matches_with_stats" /\ op' = "matches_with_stats") =>
         /\ calls' # calls =>
               LET c == calls'[Len(calls')]
               IN  /\ calls' = Append(calls, c)
                   /\ c.fn \in {"get_match_stats", "get_match_basic"}
                   /\ CallsOf(calls, c.fn, c.mid) = 0
                   /\ c.fn = "get_match_stats" =>
                         /\ Len(results') < Len(items')
                         /\ c.mid = items'[Len(results') + 1].match_id
                   /\ c.fn = "get_match_basic" =>
                         /\ pc = "returned"
                         /\ fn = "get_match_stats"
                         /\ c.mid = mid
                         /\ ~(resp.status = 200 /\ resp.body.keys # {})
         /\ (pc' = "done" /\ outcome'.kind = "returned") =>
               \A i \in 1 .. Len(items') :
                  /\ CallsOf(calls', "get_match_stats", items'[i].match_id) = 1
                  /\ CallsOf(calls', "get_match_basic", items'[i].match_id) <= 1
         /\ (Len(results') = Len(results) + 1 /\ fn = "get_match_basic") =>
               /\ results'[Len(results')].player = PyNone
               /\ results'[Len(results')].score = "-"]_vars

\* A returned batch of three matches: one record has the player's
\* statistics, one comes from the full basic-match payload.
C16_Witness ==
    /\ BatchDone
    /\ outcome.kind = "returned"
    /\ Len(items) = 3
    /\ \E i, j \in 1 .. Len(ret) :
          /\ ret[i].player # PyNone
          /\ CallsOf(calls, "get_match_basic", ret[i].match_id) = 0
          /\ ret[j].map = "de_mirage"
          /\ ret[j].score = "-"
          /\ CallsOf(calls, "get_match_basic", ret[j].match_id) = 1

\* C14: the second of two calls of matches_with_stats for the same player,
\* answered request by request as the first was, issues the same requests
\* and ends as the first did: the same exception, or the same list of records.
C14_SecondCallSameRecords ==
    run = 2 =>
       /\ pc = "http_get" => tape # << >>
       /\ pc = "done" =>
             /\ tape = << >>
             /\ outcome = first.outcome
             /\ outcome.kind = "returned" => ret = first.ret

\* The second call has returned two records, one with the player's
\* statistics and one from the basic-match payload.
C14_Witness ==
    /\ run = 2
    /\ pc = "done"
    /\ outcome.kind = "returned"
    /\ Len(ret) = 2
    /\ \E i, j \in 1 .. 2 :
          /\ ret[i].player # PyNone
          /\ ret[j].stats_unavailable_reason = "not_ready_or_hidden"

\* C17: a fetch_player_profile call returns the cached data, without a
\* request, exactly when the cache holds an entry of its player_id that is
\* less than 3600 seconds old; otherwise it sends one request, and no
\* further one when the reply arrives.
C17_CacheHitIffFresh ==
    [][\A i \in DOMAIN tasks :
          i \in DOMAIN tasks' =>
             /\ (tasks[i].pc = "start" /\ tasks'[i].pc # "start") =>
                   LET k == tasks[i].player_id
                   IN  IF /\ k \in DOMAIN _profile_cache
                          /\ time - _profile_cache[k].ts < 3600
                       THEN /\ tasks'[i].pc = "done"
                            /\ tasks'[i].requests = 0
                            /\ tasks'[i].result =
                                  Profile(_profile_cache[k].data)
                       ELSE /\ tasks'[i].pc = "await"
                            /\ tasks'[i].requests = 1
             /\ tasks[i].pc = "await" => tasks'[i].requests = 1]_vars

\* One coroutine awaits its reply after finding an entry exactly 3600
\* seconds old, another was served from the cache.
C17_Witness ==
    \E i, j \in DOMAIN tasks :
       /\ tasks[i].pc = "await"
       /\ tasks[i].player_id \in DOMAIN _profile_cache
       /\ tasks[i].now - _profile_cache[tasks[i].player_id].ts = 3600
       /\ tasks[j].pc = "done"
       /\ tasks[j].requests = 0

\* C18: under every interleaving of the coroutines the cache changes only
\* by one coroutine, on its 200 reply, storing under its own player_id the
\* data built from that reply together with the time it read before the
\* request; no entry is removed, no ts is later than the clock, and no
\* coroutine sends more than one request.
C18_CacheEntriesAreWhole ==
    [][/\ DOMAIN _profile_cache \subseteq DOMAIN _profile_cache'
       /\ \A k \in DOMAIN _profile_cache' :
             /\ _profile_cache'[k].ts <= time'
             /\ (\/ k \notin DOMAIN _profile_cache
                 \/ _profile_cache'[k] # _profile_cache[k]) =>
                   \E i \in DOMAIN tasks :
                      /\ tasks[i].pc = "await"
                      /\ tasks'[i].pc = "done"
                      /\ tasks[i].player_id = k
                      /\ tasks'[i].reply.kind = "response"
                      /\ tasks'[i].reply.status = 200
                      /\ tasks'[i].result =
                            Profile(ProfileData(RawBody(tasks'[i].reply.json, k)))
                      /\ _profile_cache'[k] =
                            [data |-> tasks'[i].result.data,
                             ts |-> tasks[i].now]
                      /\ \A h \in DOMAIN _profile_cache \ {k} :
                            _profile_cache'[h] = _profile_cache[h]
       /\ \A i \in DOMAIN tasks' : tasks'[i].requests <= 1]_vars

\* Two coroutines for the same player both missed the cache and both
\* fetched a profile, with different data; the cache holds one of the two.
C18_Witness ==
    /\ Len(tasks) = 2
    /\ tasks[1].player_id = tasks[2].player_id
    /\ \A i \in 1 .. 2 :
          /\ tasks[i].pc = "done"
          /\ tasks[i].requests = 1
          /\ tasks[i].result.kind = "dict"
    /\ tasks[1].result # tasks[2].result
    /\ _profile_cache[tasks[1].player_id].data = tasks[1].result.data

\* C19: a fetch_player_profile call whose request ends in an exception or
\* in a status other than 200 returns None and leaves the cache as it was.
C19_FailedFetchKeepsCache ==
    [][\A i \in DOMAIN tasks :
          (/\ i \in DOMAIN tasks'
           /\ tasks[i].pc = "await"
           /\ tasks'[i].pc = "done"
           /\ \/ tasks'[i].reply.kind = "exception"
              \/ tasks'[i].reply.status # 200)
          => /\ tasks'[i].result = NoProfile
             /\ _profile_cache' = _profile_cache]_vars

\* A fetch answered 404 returned None while the cache holds an expired
\* entry of its player.
C19_Witness ==
    \E i \in DOMAIN tasks :
       /\ tasks[i].pc = "done"
       /\ tasks[i].reply.status = 404
       /\ tasks[i].result = NoProfile
       /\ tasks[i].player_id \in DOMAIN _profile_cache
       /\ time - _profile_cache[tasks[i].player_id].ts >= 3600

FourFields == {"avatar", "skill_level", "game_player_id", "faceit_url"}

\* C20: when _enrich_team_players has returned, every player has the four
\* fields and its other fields are as they were.  With enrich off there
\* was no coroutine and every field a player had is unchanged.  With enrich
\* on, a player whose fetch gave a profile with a player_id has that
\* profile's four values, and every other player keeps the fields it had,
\* whatever became of the other fetches.
C20_EnrichLeavesFourFields ==
    epc = "returned" =>
       /\ DOMAIN team = DOMAIN team0
       /\ ~enrich => tasks = << >>
       /\ \A i \in DOMAIN team :
             /\ DOMAIN team[i] = DOMAIN team0[i] \cup FourFields
             /\ \A k \in DOMAIN team0[i] \ FourFields :
                   team[i][k] = team0[i][k]
             /\ IF /\ enrich
                   /\ tasks[i].result.kind = "dict"
                   /\ tasks[i].result.data.player_id = team0[i]["player_id"]
                THEN /\ team[i]["avatar"] = tasks[i].result.data.avatar
                     /\ team[i]["skill_level"] =
                           tasks[i].result.data.skill_level
                     /\ team[i]["game_player_id"] =
                           tasks[i].result.data.game_player_id
                     /\ team[i]["faceit_url"] =
                           tasks[i].result.data.faceit_url
                ELSE \A k \in DOMAIN team0[i] : team[i][k] = team0[i][k]

\* enrich on, two players: the fetch of one raised and it keeps the avatar
\* it had, the other has the avatar of its profile.
C20_Witness ==
    /\ epc = "returned"
    /\ enrich
    /\ \E i, j \in DOMAIN team :
          /\ tasks[i].result.kind = "exception"
          /\ team[i]["avatar"] = "old.png"
          /\ tasks[j].result.kind = "dict"
          /\ team[j]["avatar"] = "new.png"

====
